---- MODULE Spec2Model ----
(***************************************************************************)
(* nia-forwarding: one relay instance, either the datagram relay           *)
(* (udp.Proxy with its Session table) or the connection relay (tcp.Proxy   *)
(* with its per-connection handlers).  Every goroutine is a task with a    *)
(* position pc[t]; a step of a task is one atomic action.  The network,    *)
(* the clock, the ticker and the shutdown signal are the environment.  A   *)
(* panic ends the process: no task takes a step once panicked is set.      *)
(*                                                                         *)
(* SpecUDP, SpecTCP and Spec follow the control of the relays.  SpecCopy   *)
(* follows the bytes of one connection through io.Copy, SpecDatagram the   *)
(* datagrams of established sessions, and SpecLock the accesses to         *)
(* lastActiveTime with Session.mu taken and released in steps of its own.  *)
(* SpecPorts applies parsePorts to port lists written out character by     *)
(* character, and SpecMain runs main's loop over the forwarding rules.     *)
(***************************************************************************)
EXTENDS Integers, FiniteSets, Sequences, TLC

\* ---- bounds of the model ----
NumPeers == 2          \* distinct datagram peer addresses
MaxSessions == 2       \* Session objects a run may construct
MaxConns == 2          \* connections a run may accept
MaxTime == 1           \* the clock runs 0..MaxTime
MaxBytes == 2          \* bytes a copy direction may read
NumBytes == 2          \* distinct byte values
MaxDatagrams == 2      \* datagrams a run may receive, both legs together
FirstPort == 9         \* the port numbers of a port list start here
NumPorts == 3          \* distinct port numbers of a port list
MaxItems == 2          \* comma-separated items of a port list
MaxRules == 2          \* forwarding rules of a configuration

\* Session.timeout, the configured idle timeout, in clock units
timeout == 0

\* Proxy.bufferSize and Session.bufferSize, the configured buffer size, in bytes
bufferSize == 1

Peers == 1..NumPeers
SessionIds == 1..MaxSessions
ConnIds == 1..MaxConns
Bytes == 1..NumBytes

\* ---- tasks (goroutines) ----
UdpStart == <<"udp.Start", 0>>
UdpCancel == <<"udp.cancel", 0>>
TargetTask(s) == <<"handleTargetData", s>>
TimeoutTask(s) == <<"checkTimeout", s>>
TcpStart == <<"tcp.Start", 0>>
TcpCancel == <<"tcp.cancel", 0>>
ConnTask(c) == <<"handleConnection", c>>
ClientToTarget(c) == <<"clientToTarget", c>>
TargetToClient(c) == <<"targetToClient", c>>

UdpTasks == {UdpStart, UdpCancel} \cup {TargetTask(s) : s \in SessionIds}
               \cup {TimeoutTask(s) : s \in SessionIds}
TcpTasks == {TcpStart, TcpCancel} \cup {ConnTask(c) : c \in ConnIds}
               \cup {ClientToTarget(c) : c \in ConnIds}
               \cup {TargetToClient(c) : c \in ConnIds}
Tasks == UdpTasks \cup TcpTasks

\* the two directions of a connection: io.Copy(targetConn, clientConn) and
\* io.Copy(clientConn, targetConn)
Directions == {"clientToTarget", "targetToClient"}

\* no task: the value of a free sync.Mutex
NoHolder == <<"none", 0>>

\* parsePorts has not returned yet
NotCalled == [err |-> FALSE, ports |-> <<>>, called |-> FALSE]

VARIABLES
  kind,            \* "udp" or "tcp": which Proxy this instance is
  ctxDone,         \* ctx.Done() is closed
  now,             \* time.Now()
  panicked,        \* a goroutine panicked: the process is gone
  pc,              \* position of every task, "none" before it is started
  result,          \* what Start returned: "none" (running), "err", "nil"
  \* udp.Proxy.Start
  conn,            \* the listening UDP socket: "none", "open", "closed"
  sessions,        \* the sync.Map: peer -> session id, 0 when absent
  nsess,           \* sessions constructed so far
  clientAddr,      \* Start's local: the peer of the datagram in hand
  session,         \* Start's local: the session the datagram goes to
  rangeKeys,       \* keys sessions.Range still has to visit
  rangeCur,        \* the session the Range callback is closing
  \* udp.Session, by session id
  sessionKey,      \* Session.sessionKey (the peer)
  done,            \* Session.done is closed
  targetConn,      \* Session.targetConn: "none", "open", "closed"
  lastActiveTime,  \* Session.lastActiveTime
  closeEffects,    \* how often Close closed done / closed the socket / deleted
  \* tcp.Proxy
  listener,        \* the TCP listener: "none", "open", "closed"
  nconn,           \* connections accepted so far
  clientConn,      \* by connection: "none", "open", "closed"
  tcpTargetConn,   \* by connection: "none", "open", "closed"
  cancelled,       \* by connection: cancel() of connCtx was called
  wg,              \* by connection: the WaitGroup counter
  started,         \* by connection: copy goroutines started
  \* io.Copy, the data of one connection, by direction
  copyPc,          \* "idle", "read", "write", "done"
  srcRead,         \* the bytes src.Read has returned so far
  buf,             \* io.Copy's buf[0:nr], the chunk in hand
  readErr,         \* the Read that filled buf also returned EOF or an error
  dstWritten,      \* the bytes dst.Write has written so far
  \* the datagrams of the sessions, by session id
  ndgrams,         \* datagrams received so far
  sending,         \* datagrams handed to session.Send and not yet written
  fromPeer,        \* datagrams read from the listening socket, as sent
  toTarget,        \* datagrams written to the target: <<seq, payload>>
  fromTarget,      \* datagrams read from the outbound socket, as sent
  toPeer,          \* datagrams written back to the peer: <<seq, payload>>
  senders,         \* who sent each datagram read from the outbound socket
  \* Session.mu, by session id
  mu,              \* the task that holds the mutex, NoHolder when free
  \* main and parsePorts
  portItems,       \* the items the argument of parsePorts was written from
  portsStr,        \* the argument of parsePorts, a sequence of characters
  parsed,          \* what parsePorts returned, NotCalled before the call
  rules,           \* the rules cfg.Forwards was written from
  ruleIdx,         \* main's loop over cfg.Forwards: the rule it is at
  relays           \* the Proxy instances main has started

sharedVars == <<kind, ctxDone, now, panicked, pc, result>>
udpVars == <<conn, sessions, nsess, clientAddr, session, rangeKeys, rangeCur,
             sessionKey, done, targetConn, lastActiveTime, closeEffects>>
tcpVars == <<listener, nconn, clientConn, tcpTargetConn, cancelled, wg, started>>
copyVars == <<copyPc, srcRead, buf, readErr, dstWritten>>
dgramVars == <<ndgrams, sending, fromPeer, toTarget, fromTarget, toPeer,
               senders>>
lockVars == <<mu>>
mainVars == <<portItems, portsStr, parsed, rules, ruleIdx, relays>>
dataVars == <<copyVars, dgramVars, lockVars, mainVars>>
vars == <<sharedVars, udpVars, tcpVars, dataVars>>

Goto(t, l) == pc' = [pc EXCEPT ![t] = l]

\* main: ctx not cancelled, Start not returned
InitShared ==
  /\ ctxDone = FALSE
  /\ now = 0
  /\ panicked = FALSE
  /\ result = "none"

\* no listening UDP socket, an empty table, no Session constructed
NoUdp ==
  /\ conn = "none"
  /\ sessions = [p \in Peers |-> 0]
  /\ nsess = 0
  /\ clientAddr = 0
  /\ session = 0
  /\ rangeKeys = {}
  /\ rangeCur = 0
  /\ sessionKey = [s \in SessionIds |-> 0]
  /\ done = [s \in SessionIds |-> FALSE]
  /\ targetConn = [s \in SessionIds |-> "none"]
  /\ lastActiveTime = [s \in SessionIds |-> 0]
  /\ closeEffects = [s \in SessionIds |-> [done |-> 0, conn |-> 0, delete |-> 0]]

\* no TCP listener, no connection accepted
NoTcp ==
  /\ listener = "none"
  /\ nconn = 0
  /\ clientConn = [c \in ConnIds |-> "none"]
  /\ tcpTargetConn = [c \in ConnIds |-> "none"]
  /\ cancelled = [c \in ConnIds |-> FALSE]
  /\ wg = [c \in ConnIds |-> 0]
  /\ started = [c \in ConnIds |-> 0]

\* no byte read or written by a copy
NoBytes ==
  /\ srcRead = [d \in Directions |-> <<>>]
  /\ buf = [d \in Directions |-> <<>>]
  /\ readErr = [d \in Directions |-> FALSE]
  /\ dstWritten = [d \in Directions |-> <<>>]

\* no datagram received or forwarded
NoDatagrams ==
  /\ ndgrams = 0
  /\ sending = {}
  /\ fromPeer = [s \in SessionIds |-> <<>>]
  /\ toTarget = [s \in SessionIds |-> <<>>]
  /\ fromTarget = [s \in SessionIds |-> <<>>]
  /\ toPeer = [s \in SessionIds |-> <<>>]
  /\ senders = [s \in SessionIds |-> <<>>]

\* parsePorts not called, no configuration loaded
NoMain ==
  /\ portItems = <<>>
  /\ portsStr = <<>>
  /\ parsed = NotCalled
  /\ rules = <<>>
  /\ ruleIdx = 0
  /\ relays = {}

InitCommon ==
  /\ InitShared
  /\ NoUdp
  /\ NoTcp
  /\ copyPc = [d \in Directions |-> "idle"]
  /\ NoBytes
  /\ NoDatagrams
  /\ mu = [s \in SessionIds |-> NoHolder]
  /\ NoMain

InitUDP ==
  /\ kind = "udp"
  /\ pc = [t \in Tasks |-> IF t = UdpStart THEN "listen" ELSE "none"]
  /\ InitCommon

InitTCP ==
  /\ kind = "tcp"
  /\ pc = [t \in Tasks |-> IF t = TcpStart THEN "listen" ELSE "none"]
  /\ InitCommon

Init == InitUDP \/ InitTCP

\* ---- environment ----

\* main: cancel() after the signal
Cancel ==
  /\ ~panicked
  /\ ~ctxDone
  /\ ctxDone' = TRUE
  /\ UNCHANGED <<kind, now, panicked, pc, result, udpVars, tcpVars, dataVars>>

\* the clock advances
Tick ==
  /\ ~panicked
  /\ now < MaxTime
  /\ now' = now + 1
  /\ UNCHANGED <<kind, ctxDone, panicked, pc, result, udpVars, tcpVars, dataVars>>

\* ---- udp.Session ----
\* Grain of atomicity: a step of a task runs from one point where the task
\* can block, or where it reads or writes state another task shares, to the
\* next one.  The check of s.done in Close and the close(s.done) that follows
\* it are two steps: nothing makes them atomic in the code.

\* the session a task's Close call is closing
CloseArg(t) == IF t = UdpCancel THEN rangeCur ELSE t[2]

\* where the caller of Close goes on: both background tasks return after it,
\* the Range callback goes on to the next key
AfterClose(t) == IF t = UdpCancel THEN "range" ELSE "exited"

\* Refresh: lastActiveTime = time.Now(), under s.mu
Refresh(s) == lastActiveTime' = [lastActiveTime EXCEPT ![s] = now]

\* checkTimeout: time.Since(s.lastActiveTime) > s.timeout, read under s.mu
Inactive(s) == now - lastActiveTime[s] > timeout

\* Close, the select: `case <-s.done: return`; `default:` goes on to close
CloseSelect(t, s) ==
  IF done[s] THEN Goto(t, AfterClose(t)) ELSE Goto(t, "Close.done")

\* Close, the default branch: close(s.done), and closing a closed channel
\* panics; then s.targetConn.Close()
CloseDone(t) ==
  /\ ~panicked
  /\ pc[t] = "Close.done"
  /\ LET s == CloseArg(t) IN
       IF done[s]
         THEN /\ panicked' = TRUE
              /\ UNCHANGED <<pc, done, targetConn, closeEffects>>
         ELSE /\ done' = [done EXCEPT ![s] = TRUE]
              /\ targetConn' = [targetConn EXCEPT ![s] = "closed"]
              /\ closeEffects' = [closeEffects EXCEPT ![s].done = @ + 1,
                                                      ![s].conn = @ + 1]
              /\ Goto(t, "Close.delete")
              /\ UNCHANGED panicked
  /\ UNCHANGED <<kind, ctxDone, now, result, conn, sessions, nsess, clientAddr,
                 session, rangeKeys, rangeCur, sessionKey, lastActiveTime,
                 tcpVars, dataVars>>

\* Close: s.sessions.Delete(s.sessionKey), by key whatever the value; return
CloseDelete(t) ==
  /\ ~panicked
  /\ pc[t] = "Close.delete"
  /\ LET s == CloseArg(t) IN
       /\ sessions' = [sessions EXCEPT ![sessionKey[s]] = 0]
       /\ closeEffects' = [closeEffects EXCEPT ![s].delete = @ + 1]
  /\ Goto(t, AfterClose(t))
  /\ rangeCur' = (IF t = UdpCancel THEN 0 ELSE rangeCur)
  /\ UNCHANGED <<kind, ctxDone, now, panicked, result, conn, nsess, clientAddr,
                 session, rangeKeys, sessionKey, done, targetConn,
                 lastActiveTime, tcpVars, dataVars>>

\* Session.Close past its select, run by task t
Close(t) == CloseDone(t) \/ CloseDelete(t)

\* handleTargetData, the select and the read.  The select returns once
\* ctx.Done() or s.done is closed.  Otherwise SetReadDeadline and ReadFromUDP
\* on targetConn: a deadline expiry (continue); a datagram, then s.Refresh();
\* or another read error (the only outcome once targetConn is closed), which
\* calls s.Close().
TargetLoop(s) ==
  /\ ~panicked
  /\ pc[TargetTask(s)] = "select"
  /\ IF ctxDone \/ done[s]
       THEN /\ Goto(TargetTask(s), "exited")
            /\ UNCHANGED lastActiveTime
       ELSE \/ /\ targetConn[s] = "open"
               /\ UNCHANGED <<pc, lastActiveTime>>
            \/ /\ targetConn[s] = "open"
               /\ Refresh(s)
               /\ Goto(TargetTask(s), "write")
            \/ /\ CloseSelect(TargetTask(s), s)
               /\ UNCHANGED lastActiveTime
  /\ UNCHANGED <<kind, ctxDone, now, panicked, result, conn, sessions, nsess,
                 clientAddr, session, rangeKeys, rangeCur, sessionKey, done,
                 targetConn, closeEffects, tcpVars, dataVars>>

\* handleTargetData, s.sourceConn.WriteToUDP(buffer[:n], s.clientAddr): the
\* datagram is written back to the peer; or the write fails (the only outcome
\* once the listening socket is closed), which is logged and calls s.Close()
TargetWrite(s) ==
  /\ ~panicked
  /\ pc[TargetTask(s)] = "write"
  /\ \/ /\ conn = "open"
        /\ Goto(TargetTask(s), "select")
     \/ CloseSelect(TargetTask(s), s)
  /\ UNCHANGED <<kind, ctxDone, now, panicked, result, udpVars, tcpVars,
                 dataVars>>

\* Session.handleTargetData, the reverse-relay loop of session s
handleTargetData(s) ==
  \/ TargetLoop(s)
  \/ TargetWrite(s)
  \/ Close(TargetTask(s))

\* checkTimeout, the select (Go takes any ready case): ctx.Done() calls
\* s.Close(); s.done returns; a tick reads Inactive and calls s.Close() if so
TimeoutSelect(s) ==
  /\ ~panicked
  /\ pc[TimeoutTask(s)] = "select"
  /\ \/ /\ ctxDone
        /\ CloseSelect(TimeoutTask(s), s)
     \/ /\ done[s]
        /\ Goto(TimeoutTask(s), "exited")
     \/ /\ IF Inactive(s)
             THEN CloseSelect(TimeoutTask(s), s)
             ELSE UNCHANGED pc
  /\ UNCHANGED <<kind, ctxDone, now, panicked, result, udpVars, tcpVars, dataVars>>

\* Session.checkTimeout, the watchdog of session s
checkTimeout(s) == TimeoutSelect(s) \/ Close(TimeoutTask(s))

\* ---- udp.Proxy.Start ----

\* Load that never finds the key
Load_NeverFound(p) == 0

\* sessions.Load(clientAddrStr): the value, 0 when there is none
Load(p) == sessions[p]

\* ResolveUDPAddr and ListenUDP; `defer conn.Close()`; the cancellation
\* goroutine is started
UdpListen ==
  /\ ~panicked
  /\ pc[UdpStart] = "listen"
  /\ \/ /\ result' = "err"
        /\ Goto(UdpStart, "returned")
        /\ UNCHANGED conn
     \/ /\ conn' = "open"
        /\ pc' = [pc EXCEPT ![UdpStart] = "read", ![UdpCancel] = "wait"]
        /\ UNCHANGED result
  /\ UNCHANGED <<kind, ctxDone, now, panicked, sessions, nsess, clientAddr,
                 session, rangeKeys, rangeCur, sessionKey, done, targetConn,
                 lastActiveTime, closeEffects, tcpVars, dataVars>>

\* conn.ReadFromUDP(buffer): a datagram of some peer, or an error (the only
\* outcome once the socket is closed)
UdpRead ==
  /\ ~panicked
  /\ pc[UdpStart] = "read"
  /\ \/ /\ conn = "open"
        /\ \E p \in Peers : clientAddr' = p
        /\ Goto(UdpStart, "load")
     \/ /\ Goto(UdpStart, "readerr")
        /\ UNCHANGED clientAddr
  /\ UNCHANGED <<kind, ctxDone, now, panicked, result, conn, sessions, nsess,
                 session, rangeKeys, rangeCur, sessionKey, done, targetConn,
                 lastActiveTime, closeEffects, tcpVars, dataVars>>

\* a receive loop that gives up on any read error
UdpReadErr_ReturnsOnError ==
  /\ ~panicked
  /\ pc[UdpStart] = "readerr"
  /\ result' = "nil"
  /\ conn' = "closed"
  /\ Goto(UdpStart, "returned")
  /\ UNCHANGED <<kind, ctxDone, now, panicked, sessions, nsess, clientAddr,
                 session, rangeKeys, rangeCur, sessionKey, done, targetConn,
                 lastActiveTime, closeEffects, tcpVars, dataVars>>

\* the select after a read error: `case <-ctx.Done(): return nil` (the
\* deferred conn.Close() runs), `default:` log and continue
UdpReadErr ==
  /\ ~panicked
  /\ pc[UdpStart] = "readerr"
  /\ IF ctxDone
       THEN /\ result' = "nil"
            /\ conn' = "closed"
            /\ Goto(UdpStart, "returned")
       ELSE /\ Goto(UdpStart, "read")
            /\ UNCHANGED <<result, conn>>
  /\ UNCHANGED <<kind, ctxDone, now, panicked, sessions, nsess, clientAddr,
                 session, rangeKeys, rangeCur, sessionKey, done, targetConn,
                 lastActiveTime, closeEffects, tcpVars, dataVars>>

\* a NewSession whose error ends the receive loop
NewSession_FatalError(p) ==
  \/ /\ Goto(UdpStart, "returned")
     /\ UNCHANGED <<nsess, session, clientAddr, sessionKey, targetConn,
                    lastActiveTime>>
  \/ /\ nsess < MaxSessions
     /\ LET s == nsess + 1 IN
          /\ nsess' = s
          /\ session' = s
          /\ sessionKey' = [sessionKey EXCEPT ![s] = p]
          /\ targetConn' = [targetConn EXCEPT ![s] = "open"]
          /\ lastActiveTime' = [lastActiveTime EXCEPT ![s] = now]
          /\ pc' = [pc EXCEPT ![UdpStart] = "store",
                              ![TargetTask(s)] = "select",
                              ![TimeoutTask(s)] = "select"]
          /\ UNCHANGED clientAddr

\* NewSession: an error (ResolveUDPAddr or ListenUDP failed, nothing was
\* made), or the session with its socket, lastActiveTime = time.Now() and its
\* two goroutines started
NewSession(p) ==
  \/ /\ Goto(UdpStart, "NewSession.err")
     /\ UNCHANGED <<nsess, session, clientAddr, sessionKey, targetConn,
                    lastActiveTime>>
  \/ /\ nsess < MaxSessions
     /\ LET s == nsess + 1 IN
          /\ nsess' = s
          /\ session' = s
          /\ sessionKey' = [sessionKey EXCEPT ![s] = p]
          /\ targetConn' = [targetConn EXCEPT ![s] = "open"]
          /\ lastActiveTime' = [lastActiveTime EXCEPT ![s] = now]
          /\ pc' = [pc EXCEPT ![UdpStart] = "store",
                              ![TargetTask(s)] = "select",
                              ![TimeoutTask(s)] = "select"]
          /\ UNCHANGED clientAddr

\* `if err != nil` after NewSession: log and continue with the next read
NewSessionErr ==
  /\ ~panicked
  /\ pc[UdpStart] = "NewSession.err"
  /\ Goto(UdpStart, "read")
  /\ clientAddr' = 0
  /\ UNCHANGED <<kind, ctxDone, now, panicked, result, conn, sessions, nsess,
                 session, rangeKeys, rangeCur, sessionKey, done, targetConn,
                 lastActiveTime, closeEffects, tcpVars, dataVars>>

\* v, ok := sessions.Load(clientAddrStr): without an entry NewSession (log and
\* continue when it fails); with one, session.Refresh()
UdpLoad ==
  /\ ~panicked
  /\ pc[UdpStart] = "load"
  /\ IF Load(clientAddr) = 0
       THEN NewSession(clientAddr)
       ELSE /\ session' = Load(clientAddr)
            /\ Refresh(Load(clientAddr))
            /\ Goto(UdpStart, "send")
            /\ UNCHANGED <<nsess, clientAddr, sessionKey, targetConn>>
  /\ UNCHANGED <<kind, ctxDone, now, panicked, result, conn, sessions,
                 rangeKeys, rangeCur, done, closeEffects, tcpVars, dataVars>>

\* sessions.Store(clientAddrStr, newSession)
UdpStore ==
  /\ ~panicked
  /\ pc[UdpStart] = "store"
  /\ sessions' = [sessions EXCEPT ![clientAddr] = session]
  /\ Goto(UdpStart, "send")
  /\ UNCHANGED <<kind, ctxDone, now, panicked, result, conn, nsess, clientAddr,
                 session, rangeKeys, rangeCur, sessionKey, done, targetConn,
                 lastActiveTime, closeEffects, tcpVars, dataVars>>

\* a Send that closes the session when the write fails
Send_ClosesOnError ==
  /\ ~panicked
  /\ pc[UdpStart] = "send"
  /\ Refresh(session)
  /\ \/ /\ targetConn[session] = "open"
        /\ Goto(UdpStart, "read")
        /\ clientAddr' = 0
        /\ session' = 0
        /\ UNCHANGED <<done, targetConn, sessions>>
     \/ /\ Goto(UdpStart, "Send.err")
        /\ done' = [done EXCEPT ![session] = TRUE]
        /\ targetConn' = [targetConn EXCEPT ![session] = "closed"]
        /\ sessions' = [sessions EXCEPT ![sessionKey[session]] = 0]
        /\ UNCHANGED <<clientAddr, session>>
  /\ UNCHANGED <<kind, ctxDone, now, panicked, result, conn, nsess,
                 rangeKeys, rangeCur, sessionKey, closeEffects, tcpVars,
                 dataVars>>

\* session.Send(data): s.Refresh(), then s.targetConn.WriteToUDP, which
\* writes the datagram, or fails (the only outcome once targetConn is closed)
Send ==
  /\ ~panicked
  /\ pc[UdpStart] = "send"
  /\ Refresh(session)
  /\ \/ /\ targetConn[session] = "open"
        /\ Goto(UdpStart, "read")
        /\ clientAddr' = 0
        /\ session' = 0
     \/ /\ Goto(UdpStart, "Send.err")
        /\ UNCHANGED <<clientAddr, session>>
  /\ UNCHANGED <<kind, ctxDone, now, panicked, result, conn, sessions, nsess,
                 rangeKeys, rangeCur, sessionKey, done, targetConn,
                 closeEffects, tcpVars, dataVars>>

\* Send, `if err != nil`: the error is logged and Send returns; the loop goes
\* on to the next read
SendErr ==
  /\ ~panicked
  /\ pc[UdpStart] = "Send.err"
  /\ Goto(UdpStart, "read")
  /\ clientAddr' = 0
  /\ session' = 0
  /\ UNCHANGED <<kind, ctxDone, now, panicked, result, conn, sessions, nsess,
                 rangeKeys, rangeCur, sessionKey, done, targetConn,
                 lastActiveTime, closeEffects, tcpVars, dataVars>>

\* udp.Proxy.Start, the receive loop
UdpProxyStart ==
  \/ UdpListen
  \/ UdpRead
  \/ UdpReadErr
  \/ UdpLoad
  \/ NewSessionErr
  \/ UdpStore
  \/ Send
  \/ SendErr

\* the goroutine of Start: <-ctx.Done(); conn.Close()
UdpCancelClose ==
  /\ ~panicked
  /\ pc[UdpCancel] = "wait"
  /\ ctxDone
  /\ conn' = "closed"
  /\ Goto(UdpCancel, "Range")
  /\ UNCHANGED <<kind, ctxDone, now, panicked, result, sessions, nsess,
                 clientAddr, session, rangeKeys, rangeCur, sessionKey, done,
                 targetConn, lastActiveTime, closeEffects, tcpVars, dataVars>>

\* sessions.Range begins: the keys present now are the ones it visits
RangeBegin ==
  /\ ~panicked
  /\ pc[UdpCancel] = "Range"
  /\ rangeKeys' = {p \in Peers : sessions[p] # 0}
  /\ Goto(UdpCancel, "range")
  /\ UNCHANGED <<kind, ctxDone, now, panicked, result, conn, sessions, nsess,
                 clientAddr, session, rangeCur, sessionKey, done, targetConn,
                 lastActiveTime, closeEffects, tcpVars, dataVars>>

\* sessions.Range: the callback, s.Close(), on the next key, in any order,
\* with the value the key has now; a key deleted meanwhile is skipped
RangeNext ==
  /\ ~panicked
  /\ pc[UdpCancel] = "range"
  /\ IF rangeKeys = {}
       THEN /\ Goto(UdpCancel, "exited")
            /\ UNCHANGED <<rangeKeys, rangeCur>>
       ELSE \E k \in rangeKeys :
              /\ rangeKeys' = rangeKeys \ {k}
              /\ IF sessions[k] # 0
                   THEN /\ CloseSelect(UdpCancel, sessions[k])
                        /\ rangeCur' = (IF done[sessions[k]] THEN 0
                                                             ELSE sessions[k])
                   ELSE UNCHANGED <<rangeCur, pc>>
  /\ UNCHANGED <<kind, ctxDone, now, panicked, result, conn, sessions, nsess,
                 clientAddr, session, sessionKey, done, targetConn,
                 lastActiveTime, closeEffects, tcpVars, dataVars>>

\* the cancellation goroutine of udp.Proxy.Start
UdpProxyCancel ==
  \/ UdpCancelClose
  \/ RangeBegin
  \/ RangeNext
  \/ Close(UdpCancel)

NextUDP ==
  \/ Cancel
  \/ Tick
  \/ UdpProxyStart
  \/ UdpProxyCancel
  \/ \E s \in SessionIds : handleTargetData(s)
  \/ \E s \in SessionIds : checkTimeout(s)

SpecUDP == InitUDP /\ [][NextUDP]_vars

\* ---- tcp.Proxy ----

\* connCtx.Done() is closed: by cancel() or by the parent ctx
ConnCtxDone(c) == ctxDone \/ cancelled[c]

\* wg.Add(2)
WgAdd == 2

\* the sockets of a copy direction: io.Copy(dst, src)
Src(t) == IF t[1] = "clientToTarget" THEN clientConn[t[2]] ELSE tcpTargetConn[t[2]]
Dst(t) == IF t[1] = "clientToTarget" THEN tcpTargetConn[t[2]] ELSE clientConn[t[2]]

\* net.Listen; `defer listener.Close()`; the cancellation goroutine is started
TcpListen ==
  /\ ~panicked
  /\ pc[TcpStart] = "listen"
  /\ \/ /\ result' = "err"
        /\ Goto(TcpStart, "returned")
        /\ UNCHANGED listener
     \/ /\ listener' = "open"
        /\ pc' = [pc EXCEPT ![TcpStart] = "accept", ![TcpCancel] = "wait"]
        /\ UNCHANGED result
  /\ UNCHANGED <<kind, ctxDone, now, panicked, udpVars, nconn, clientConn,
                 tcpTargetConn, cancelled, wg, started,
                 dataVars>>

\* listener.Accept(): a connection, handed to `go p.handleConnection`, or an
\* error (the only outcome once the listener is closed)
TcpAccept ==
  /\ ~panicked
  /\ pc[TcpStart] = "accept"
  /\ \/ /\ listener = "open"
        /\ nconn < MaxConns
        /\ nconn' = nconn + 1
        /\ clientConn' = [clientConn EXCEPT ![nconn + 1] = "open"]
        /\ Goto(ConnTask(nconn + 1), "dial")
     \/ /\ Goto(TcpStart, "accepterr")
        /\ UNCHANGED <<nconn, clientConn>>
  /\ UNCHANGED <<kind, ctxDone, now, panicked, result, udpVars, listener,
                 tcpTargetConn, cancelled, wg, started,
                 dataVars>>

\* the select after an Accept error: `case <-ctx.Done(): return nil` (the
\* deferred listener.Close() runs), `default:` log and continue
TcpAcceptErr ==
  /\ ~panicked
  /\ pc[TcpStart] = "accepterr"
  /\ IF ctxDone
       THEN /\ result' = "nil"
            /\ listener' = "closed"
            /\ Goto(TcpStart, "returned")
       ELSE /\ Goto(TcpStart, "accept")
            /\ UNCHANGED <<result, listener>>
  /\ UNCHANGED <<kind, ctxDone, now, panicked, udpVars, nconn, clientConn,
                 tcpTargetConn, cancelled, wg, started,
                 dataVars>>

\* tcp.Proxy.Start, the accept loop
TcpProxyStart == TcpListen \/ TcpAccept \/ TcpAcceptErr

\* the goroutine of Start: <-ctx.Done(); listener.Close()
TcpProxyCancel ==
  /\ ~panicked
  /\ pc[TcpCancel] = "wait"
  /\ ctxDone
  /\ listener' = "closed"
  /\ Goto(TcpCancel, "exited")
  /\ UNCHANGED <<kind, ctxDone, now, panicked, result, udpVars, nconn,
                 clientConn, tcpTargetConn, cancelled, wg, started,
                 dataVars>>

\* handleConnection without `defer clientConn.Close()` on the dial error
Dial_LeavesClientOpen(c) ==
  /\ ~panicked
  /\ pc[ConnTask(c)] = "dial"
  /\ \/ /\ Goto(ConnTask(c), "exited")
        /\ UNCHANGED <<tcpTargetConn, wg>>
     \/ /\ tcpTargetConn' = [tcpTargetConn EXCEPT ![c] = "open"]
        /\ wg' = [wg EXCEPT ![c] = WgAdd]
        /\ Goto(ConnTask(c), "go1")
  /\ UNCHANGED <<kind, ctxDone, now, panicked, result, udpVars, listener,
                 nconn, clientConn, cancelled, started,
                 dataVars>>

\* net.Dial: an error returns (the deferred clientConn.Close() runs); else
\* `defer targetConn.Close()`, context.WithCancel, wg.Add(2)
Dial(c) ==
  /\ ~panicked
  /\ pc[ConnTask(c)] = "dial"
  /\ \/ /\ clientConn' = [clientConn EXCEPT ![c] = "closed"]
        /\ Goto(ConnTask(c), "exited")
        /\ UNCHANGED <<tcpTargetConn, wg>>
     \/ /\ tcpTargetConn' = [tcpTargetConn EXCEPT ![c] = "open"]
        /\ wg' = [wg EXCEPT ![c] = WgAdd]
        /\ Goto(ConnTask(c), "go1")
        /\ UNCHANGED clientConn
  /\ UNCHANGED <<kind, ctxDone, now, panicked, result, udpVars, listener,
                 nconn, cancelled, started,
                 dataVars>>

\* the two `go func()` statements, client -> target first
GoCopy(c) ==
  /\ ~panicked
  /\ \/ /\ pc[ConnTask(c)] = "go1"
        /\ pc' = [pc EXCEPT ![ConnTask(c)] = "go2",
                            ![ClientToTarget(c)] = "read"]
     \/ /\ pc[ConnTask(c)] = "go2"
        /\ pc' = [pc EXCEPT ![ConnTask(c)] = "select",
                            ![TargetToClient(c)] = "read"]
  /\ started' = [started EXCEPT ![c] = @ + 1]
  /\ UNCHANGED <<kind, ctxDone, now, panicked, result, udpVars, listener,
                 nconn, clientConn, tcpTargetConn, cancelled, wg,
                 dataVars>>

\* select { case <-connCtx.Done(): clientConn.Close(); targetConn.Close() }
ConnSelect(c) ==
  /\ ~panicked
  /\ \/ /\ pc[ConnTask(c)] = "select"
        /\ ConnCtxDone(c)
        /\ clientConn' = [clientConn EXCEPT ![c] = "closed"]
        /\ Goto(ConnTask(c), "closeTarget")
        /\ UNCHANGED tcpTargetConn
     \/ /\ pc[ConnTask(c)] = "closeTarget"
        /\ tcpTargetConn' = [tcpTargetConn EXCEPT ![c] = "closed"]
        /\ Goto(ConnTask(c), "wait")
        /\ UNCHANGED clientConn
  /\ UNCHANGED <<kind, ctxDone, now, panicked, result, udpVars, listener,
                 nconn, cancelled, wg, started,
                 dataVars>>

\* handleConnection that returns without waiting for the copy goroutines
WgWait_NoWait(c) ==
  /\ ~panicked
  /\ pc[ConnTask(c)] = "wait"
  /\ cancelled' = [cancelled EXCEPT ![c] = TRUE]
  /\ tcpTargetConn' = [tcpTargetConn EXCEPT ![c] = "closed"]
  /\ clientConn' = [clientConn EXCEPT ![c] = "closed"]
  /\ Goto(ConnTask(c), "exited")
  /\ UNCHANGED <<kind, ctxDone, now, panicked, result, udpVars, listener,
                 nconn, wg, started,
                 dataVars>>

\* wg.Wait(), then the deferred cancel(), targetConn.Close(), clientConn.Close()
WgWait(c) ==
  /\ ~panicked
  /\ pc[ConnTask(c)] = "wait"
  /\ wg[c] = 0
  /\ cancelled' = [cancelled EXCEPT ![c] = TRUE]
  /\ tcpTargetConn' = [tcpTargetConn EXCEPT ![c] = "closed"]
  /\ clientConn' = [clientConn EXCEPT ![c] = "closed"]
  /\ Goto(ConnTask(c), "exited")
  /\ UNCHANGED <<kind, ctxDone, now, panicked, result, udpVars, listener,
                 nconn, wg, started,
                 dataVars>>

\* tcp.Proxy.handleConnection for connection c
handleConnection(c) == Dial(c) \/ GoCopy(c) \/ ConnSelect(c) \/ WgWait(c)

\* io.Copy(dst, src): Read of src gives bytes, or EOF or an error (the only
\* outcome once src is closed); Write to dst succeeds or fails (the only
\* outcome once dst is closed).  EOF or an error ends the copy.
Copy(t) ==
  /\ ~panicked
  /\ \/ /\ pc[t] = "read"
        /\ \/ /\ Src(t) = "open"
              /\ Goto(t, "write")
           \/ Goto(t, "cancel")
     \/ /\ pc[t] = "write"
        /\ \/ /\ Dst(t) = "open"
              /\ Goto(t, "read")
           \/ Goto(t, "cancel")
  /\ UNCHANGED <<kind, ctxDone, now, panicked, result, udpVars, tcpVars, dataVars>>

\* a copy goroutine without `defer cancel()`
CopyDefer_NoCancel(t) ==
  /\ ~panicked
  /\ \/ /\ pc[t] = "cancel"
        /\ Goto(t, "Done")
        /\ UNCHANGED wg
     \/ /\ pc[t] = "Done"
        /\ wg' = [wg EXCEPT ![t[2]] = @ - 1]
        /\ Goto(t, "exited")
  /\ UNCHANGED <<kind, ctxDone, now, panicked, result, udpVars, listener,
                 nconn, clientConn, tcpTargetConn, cancelled, started,
                 dataVars>>

\* the deferred calls of a copy goroutine: cancel(), then wg.Done()
CopyDefer(t) ==
  /\ ~panicked
  /\ \/ /\ pc[t] = "cancel"
        /\ cancelled' = [cancelled EXCEPT ![t[2]] = TRUE]
        /\ Goto(t, "Done")
        /\ UNCHANGED wg
     \/ /\ pc[t] = "Done"
        /\ wg' = [wg EXCEPT ![t[2]] = @ - 1]
        /\ Goto(t, "exited")
        /\ UNCHANGED cancelled
  /\ UNCHANGED <<kind, ctxDone, now, panicked, result, udpVars, listener,
                 nconn, clientConn, tcpTargetConn, started,
                 dataVars>>

\* one of the two copy goroutines of a connection
CopyTask(t) == Copy(t) \/ CopyDefer(t)

CopyTasks == {ClientToTarget(c) : c \in ConnIds} \cup {TargetToClient(c) : c \in ConnIds}

NextTCP ==
  \/ Cancel
  \/ TcpProxyStart
  \/ TcpProxyCancel
  \/ \E c \in ConnIds : handleConnection(c)
  \/ \E t \in CopyTasks : CopyTask(t)

SpecTCP == InitTCP /\ [][NextTCP]_vars

Next == NextUDP \/ NextTCP

Spec == Init /\ [][Next]_vars

\* ---- io.Copy, the data of a connection ----
\* The two copy goroutines of one established connection, with the bytes they
\* move.  io.Copy(dst, src) loops: nr, er := src.Read(buf); if nr > 0 then
\* nw, ew := dst.Write(buf[0:nr]), and a write error or nw # nr ends the copy;
\* then er # nil (EOF included) ends the copy.

\* the non-empty chunks of at most n bytes a Read can return
Chunks(n) == UNION {[1..k -> Bytes] : k \in 1..n}

\* the part of the chunk a Write of nw bytes writes, in the wrong order
Written_Reversed(b, nw) == [i \in 1..nw |-> b[Len(b) + 1 - i]]

\* the part of the chunk a Write of nw bytes writes: buf[0:nw]
Written(b, nw) == SubSeq(b, 1, nw)

\* a connection is established and both copy goroutines are in io.Copy
InitCopy ==
  /\ kind = "tcp"
  /\ copyPc = [d \in Directions |-> "read"]
  /\ pc = [t \in Tasks |->
             CASE t = TcpStart -> "accept"
               [] t = TcpCancel -> "wait"
               [] t = ConnTask(1) -> "select"
               [] t \in {ClientToTarget(1), TargetToClient(1)} -> "read"
               [] OTHER -> "none"]
  /\ InitShared
  /\ NoUdp
  /\ listener = "open"
  /\ nconn = 1
  /\ clientConn = [c \in ConnIds |-> IF c = 1 THEN "open" ELSE "none"]
  /\ tcpTargetConn = [c \in ConnIds |-> IF c = 1 THEN "open" ELSE "none"]
  /\ cancelled = [c \in ConnIds |-> FALSE]
  /\ wg = [c \in ConnIds |-> IF c = 1 THEN WgAdd ELSE 0]
  /\ started = [c \in ConnIds |-> IF c = 1 THEN WgAdd ELSE 0]
  /\ NoBytes
  /\ NoDatagrams
  /\ mu = [s \in SessionIds |-> NoHolder]
  /\ NoMain

\* src.Read(buf): some bytes, some bytes together with EOF or an error, or
\* EOF or an error alone, which ends the copy
CopyRead(d) ==
  /\ copyPc[d] = "read"
  /\ \/ /\ Len(srcRead[d]) < MaxBytes
        /\ \E chunk \in Chunks(MaxBytes - Len(srcRead[d])) :
             /\ srcRead' = [srcRead EXCEPT ![d] = @ \o chunk]
             /\ buf' = [buf EXCEPT ![d] = chunk]
        /\ \E er \in BOOLEAN : readErr' = [readErr EXCEPT ![d] = er]
        /\ copyPc' = [copyPc EXCEPT ![d] = "write"]
     \/ /\ copyPc' = [copyPc EXCEPT ![d] = "done"]
        /\ UNCHANGED <<srcRead, buf, readErr>>
  /\ UNCHANGED <<sharedVars, udpVars, tcpVars, dstWritten, dgramVars, lockVars,
                 mainVars>>

\* dst.Write(buf[0:nr]): nw bytes get written; fewer than nr, or an error with
\* all nr written, ends the copy, and so does the error of the Read before
CopyWrite(d) ==
  /\ copyPc[d] = "write"
  /\ \E nw \in 0..Len(buf[d]) : \E ew \in BOOLEAN :
       /\ dstWritten' = [dstWritten EXCEPT ![d] = @ \o Written(buf[d], nw)]
       /\ copyPc' = [copyPc EXCEPT ![d] =
                       IF nw = Len(buf[d]) /\ ~ew /\ ~readErr[d]
                         THEN "read" ELSE "done"]
  /\ buf' = [buf EXCEPT ![d] = <<>>]
  /\ readErr' = [readErr EXCEPT ![d] = FALSE]
  /\ UNCHANGED <<sharedVars, udpVars, tcpVars, srcRead, dgramVars, lockVars,
                 mainVars>>

\* io.Copy(dst, src) of direction d
IoCopy(d) == CopyRead(d) \/ CopyWrite(d)

NextCopy == \E d \in Directions : IoCopy(d)

SpecCopy == InitCopy /\ [][NextCopy]_vars

\* ---- the datagrams of the sessions ----
\* The receive loop and the reverse loops of established sessions, with the
\* datagrams they move.  A datagram on the wire is its payload, a sequence of
\* bytes; a forwarded datagram is recorded with the position, in the leg's
\* sequence of received datagrams, of the datagram it was received as.

\* the payloads a datagram can have, up to one byte more than the buffer holds
Datagrams == UNION {[1..k -> Bytes] : k \in 0..(bufferSize + 1)}

\* ReadFromUDP(buffer) and buffer[:n]: the datagram's first n bytes, n at most
\* len(buffer); what does not fit is discarded
ReadFromUDP(d) ==
  SubSeq(d, 1, IF Len(d) < bufferSize THEN Len(d) ELSE bufferSize)

\* every peer the table has room for has its session, open and stored
Established == IF NumPeers < MaxSessions THEN NumPeers ELSE MaxSessions

InitDatagram ==
  /\ kind = "udp"
  /\ pc = [t \in Tasks |->
             CASE t = UdpStart -> "read"
               [] t = UdpCancel -> "wait"
               [] t[1] \in {"handleTargetData", "checkTimeout"}
                    /\ t[2] <= Established -> "select"
               [] OTHER -> "none"]
  /\ InitShared
  /\ conn = "open"
  /\ sessions = [p \in Peers |-> IF p <= Established THEN p ELSE 0]
  /\ nsess = Established
  /\ clientAddr = 0
  /\ session = 0
  /\ rangeKeys = {}
  /\ rangeCur = 0
  /\ sessionKey = [s \in SessionIds |-> IF s <= Established THEN s ELSE 0]
  /\ done = [s \in SessionIds |-> FALSE]
  /\ targetConn = [s \in SessionIds |-> IF s <= Established THEN "open" ELSE "none"]
  /\ lastActiveTime = [s \in SessionIds |-> 0]
  /\ closeEffects = [s \in SessionIds |-> [done |-> 0, conn |-> 0, delete |-> 0]]
  /\ NoTcp
  /\ copyPc = [d \in Directions |-> "idle"]
  /\ NoBytes
  /\ NoDatagrams
  /\ mu = [s \in SessionIds |-> NoHolder]
  /\ NoMain

\* a receive loop that hands the datagram to `go session.Send(data)` and reads on
DatagramRead_Async ==
  /\ pc[UdpStart] \in {"read", "send"}
  /\ ndgrams < MaxDatagrams
  /\ \E p \in Peers : \E d \in Datagrams :
       /\ Load(p) # 0
       /\ LET s == Load(p) IN
            /\ fromPeer' = [fromPeer EXCEPT ![s] = Append(@, d)]
            /\ sending' = sending \cup {<<s, Len(fromPeer[s]) + 1, ReadFromUDP(d)>>}
  /\ ndgrams' = ndgrams + 1
  /\ Goto(UdpStart, "send")
  /\ UNCHANGED <<kind, ctxDone, now, panicked, result, udpVars, tcpVars,
                 copyVars, lockVars, toTarget, fromTarget, toPeer,
                 senders, mainVars>>

\* the receive loop: conn.ReadFromUDP(buffer) gives a datagram of a peer,
\* data is the copy of buffer[:n], sessions.Load finds the peer's session and
\* data is handed to session.Send
DatagramRead ==
  /\ pc[UdpStart] = "read"
  /\ ndgrams < MaxDatagrams
  /\ \E p \in Peers : \E d \in Datagrams :
       /\ Load(p) # 0
       /\ LET s == Load(p) IN
            /\ fromPeer' = [fromPeer EXCEPT ![s] = Append(@, d)]
            /\ sending' = sending \cup {<<s, Len(fromPeer[s]) + 1, ReadFromUDP(d)>>}
  /\ ndgrams' = ndgrams + 1
  /\ Goto(UdpStart, "send")
  /\ UNCHANGED <<kind, ctxDone, now, panicked, result, udpVars, tcpVars,
                 copyVars, lockVars, toTarget, fromTarget, toPeer,
                 senders, mainVars>>

\* session.Send(data): s.Refresh(), then s.targetConn.WriteToUDP(data,
\* s.targetAddr) writes the datagram, or fails and the datagram is dropped; the
\* loop reads on
DatagramSend ==
  /\ pc[UdpStart] = "send"
  /\ \E m \in sending :
       /\ sending' = sending \ {m}
       /\ Refresh(m[1])
       /\ \/ toTarget' = [toTarget EXCEPT ![m[1]] = Append(@, <<m[2], m[3]>>)]
          \/ UNCHANGED toTarget
  /\ Goto(UdpStart, IF sending' = {} THEN "read" ELSE "send")
  /\ UNCHANGED <<kind, ctxDone, now, panicked, result, conn, sessions, nsess,
                 clientAddr, session, rangeKeys, rangeCur, sessionKey, done,
                 targetConn, closeEffects, tcpVars, copyVars, lockVars,
                 ndgrams, fromPeer, fromTarget, toPeer, senders, mainVars>>

\* who can send a datagram to a session's outbound socket, which
\* net.ListenUDP binds to [::]:0 and does not connect: the target of the
\* relay, or any other host
Senders == {"target", "other"}

\* handleTargetData, a turn of the loop that reads a datagram:
\* n, _, err := s.targetConn.ReadFromUDP(buffer) takes the datagram whoever
\* sent it, s.Refresh(), then s.sourceConn.WriteToUDP(buffer[:n], s.clientAddr)
\* writes it back to the peer, or fails
DatagramReturn(s) ==
  /\ pc[TargetTask(s)] = "select"
  /\ ndgrams < MaxDatagrams
  /\ \E d \in Datagrams : \E a \in Senders :
       /\ fromTarget' = [fromTarget EXCEPT ![s] = Append(@, d)]
       /\ senders' = [senders EXCEPT ![s] = Append(@, a)]
       /\ Refresh(s)
       /\ \/ toPeer' = [toPeer EXCEPT ![s] =
                          Append(@, <<Len(fromTarget[s]) + 1, ReadFromUDP(d)>>)]
          \/ UNCHANGED toPeer
  /\ ndgrams' = ndgrams + 1
  /\ UNCHANGED <<sharedVars, conn, sessions, nsess, clientAddr, session,
                 rangeKeys, rangeCur, sessionKey, done, targetConn,
                 closeEffects, tcpVars, copyVars, lockVars, sending,
                 fromPeer, toTarget, mainVars>>

NextDatagram ==
  \/ Tick
  \/ DatagramRead
  \/ DatagramSend
  \/ \E s \in SessionIds : DatagramReturn(s)

SpecDatagram == InitDatagram /\ [][NextDatagram]_vars

\* ---- Session.mu ----
\* The tasks that touch lastActiveTime of established sessions, with the
\* mutex: s.mu.Lock(), the access and s.mu.Unlock() are steps of their own.
\* The receive loop calls session.Refresh() and then session.Send, which
\* calls s.Refresh() again and then writes; the reverse loop calls
\* s.Refresh() between its read and its write; the watchdog reads
\* lastActiveTime on a tick.

LockTasks == {UdpStart} \cup {TargetTask(s) : s \in SessionIds}
               \cup {TimeoutTask(s) : s \in SessionIds}

\* the session whose method task t is in
Receiver(t) == IF t = UdpStart THEN session ELSE t[2]

\* the receive loop: a datagram of a peer whose session is in the table
LockedDispatch ==
  /\ pc[UdpStart] = "read"
  /\ \E p \in Peers :
       /\ Load(p) # 0
       /\ clientAddr' = p
       /\ session' = Load(p)
  /\ Goto(UdpStart, "Refresh.Lock")
  /\ UNCHANGED <<kind, ctxDone, now, panicked, result, conn, sessions, nsess,
                 rangeKeys, rangeCur, sessionKey, done, targetConn,
                 lastActiveTime, closeEffects, tcpVars, dataVars>>

\* Send: s.targetConn.WriteToUDP, after s.Refresh() has returned
LockedSend ==
  /\ pc[UdpStart] = "Send.write"
  /\ Goto(UdpStart, "read")
  /\ clientAddr' = 0
  /\ session' = 0
  /\ UNCHANGED <<kind, ctxDone, now, panicked, result, conn, sessions, nsess,
                 rangeKeys, rangeCur, sessionKey, done, targetConn,
                 lastActiveTime, closeEffects, tcpVars, dataVars>>

\* handleTargetData: the select returns on s.done; else a datagram is read
\* and s.Refresh() is called; after it the datagram is written back
LockedReturn(s) ==
  /\ \/ /\ pc[TargetTask(s)] = "select"
        /\ Goto(TargetTask(s), IF done[s] THEN "exited" ELSE "Refresh.Lock")
     \/ /\ pc[TargetTask(s)] = "write"
        /\ Goto(TargetTask(s), "select")
  /\ UNCHANGED <<kind, ctxDone, now, panicked, result, udpVars, tcpVars,
                 dataVars>>

\* checkTimeout: `case <-s.done: return`, `case <-ticker.C:`
LockedTick(s) ==
  /\ pc[TimeoutTask(s)] = "select"
  /\ Goto(TimeoutTask(s), IF done[s] THEN "exited" ELSE "check.Lock")
  /\ UNCHANGED <<kind, ctxDone, now, panicked, result, udpVars, tcpVars,
                 dataVars>>

\* a Lock that does not wait for the mutex to be free
MuLock_NoWait(t) ==
  /\ pc[t] \in {"Refresh.Lock", "Send.Lock", "check.Lock"}
  /\ mu' = [mu EXCEPT ![Receiver(t)] = t]
  /\ Goto(t, CASE pc[t] = "Refresh.Lock" -> "Refresh.set"
               [] pc[t] = "Send.Lock" -> "Send.set"
               [] pc[t] = "check.Lock" -> "check.read")
  /\ UNCHANGED <<kind, ctxDone, now, panicked, result, udpVars, tcpVars,
                 copyVars, dgramVars,
                 mainVars>>

\* s.mu.Lock(): blocks until the mutex is free
MuLock(t) ==
  /\ pc[t] \in {"Refresh.Lock", "Send.Lock", "check.Lock"}
  /\ mu[Receiver(t)] = NoHolder
  /\ mu' = [mu EXCEPT ![Receiver(t)] = t]
  /\ Goto(t, CASE pc[t] = "Refresh.Lock" -> "Refresh.set"
               [] pc[t] = "Send.Lock" -> "Send.set"
               [] pc[t] = "check.Lock" -> "check.read")
  /\ UNCHANGED <<kind, ctxDone, now, panicked, result, udpVars, tcpVars,
                 copyVars, dgramVars,
                 mainVars>>

\* Refresh: s.lastActiveTime = time.Now()
RefreshSet(t) ==
  /\ pc[t] \in {"Refresh.set", "Send.set"}
  /\ Refresh(Receiver(t))
  /\ Goto(t, IF pc[t] = "Refresh.set" THEN "Refresh.Unlock" ELSE "Send.Unlock")
  /\ UNCHANGED <<kind, ctxDone, now, panicked, result, conn, sessions, nsess,
                 clientAddr, session, rangeKeys, rangeCur, sessionKey, done,
                 targetConn, closeEffects, tcpVars, dataVars>>

\* checkTimeout: inactive := time.Since(s.lastActiveTime) > s.timeout
CheckRead(s) ==
  /\ pc[TimeoutTask(s)] = "check.read"
  /\ Goto(TimeoutTask(s), IF Inactive(s) THEN "Unlock.inactive"
                                          ELSE "Unlock.active")
  /\ UNCHANGED <<kind, ctxDone, now, panicked, result, udpVars, tcpVars,
                 dataVars>>

\* a Send that unlocks with defer, after its write
MuUnlock_AfterWrite(t) ==
  /\ pc[t] \in {"Refresh.Unlock", "Send.Unlock", "Unlock.inactive",
                "Unlock.active"}
  /\ mu' = IF pc[t] = "Send.Unlock" THEN mu
           ELSE [mu EXCEPT ![Receiver(t)] = NoHolder]
  /\ CASE pc[t] = "Refresh.Unlock" ->
            Goto(t, IF t = UdpStart THEN "Send.Lock" ELSE "write")
       [] pc[t] = "Send.Unlock" -> Goto(t, "Send.write")
       [] pc[t] = "Unlock.inactive" -> CloseSelect(t, Receiver(t))
       [] pc[t] = "Unlock.active" -> Goto(t, "select")
  /\ UNCHANGED <<kind, ctxDone, now, panicked, result, udpVars, tcpVars,
                 copyVars, dgramVars,
                 mainVars>>

\* s.mu.Unlock(), and where the task goes on: the receive loop to Send and
\* then to the write, the reverse loop to its write, the watchdog to
\* s.Close() when inactive and to its select when not
MuUnlock(t) ==
  /\ pc[t] \in {"Refresh.Unlock", "Send.Unlock", "Unlock.inactive",
                "Unlock.active"}
  /\ mu' = [mu EXCEPT ![Receiver(t)] = NoHolder]
  /\ CASE pc[t] = "Refresh.Unlock" ->
            Goto(t, IF t = UdpStart THEN "Send.Lock" ELSE "write")
       [] pc[t] = "Send.Unlock" -> Goto(t, "Send.write")
       [] pc[t] = "Unlock.inactive" -> CloseSelect(t, Receiver(t))
       [] pc[t] = "Unlock.active" -> Goto(t, "select")
  /\ UNCHANGED <<kind, ctxDone, now, panicked, result, udpVars, tcpVars,
                 copyVars, dgramVars,
                 mainVars>>

NextLock ==
  \/ Tick
  \/ LockedDispatch
  \/ LockedSend
  \/ \E s \in SessionIds : LockedReturn(s)
  \/ \E s \in SessionIds : LockedTick(s)
  \/ \E t \in LockTasks : MuLock(t)
  \/ \E t \in LockTasks : RefreshSet(t)
  \/ \E s \in SessionIds : CheckRead(s)
  \/ \E t \in LockTasks : MuUnlock(t)
  \/ \E s \in SessionIds : Close(TimeoutTask(s))

SpecLock == InitDatagram /\ [][NextLock]_vars

\* ---- main: parsePorts ----
\* A string is the sequence of its characters.

Digits == <<"0", "1", "2", "3", "4", "5", "6", "7", "8", "9">>
DigitValue(c) == (CHOOSE i \in DOMAIN Digits : Digits[i] = c) - 1

\* what parsePorts returns: ports and nil, or nil and an error
PortsOk(ports) == [err |-> FALSE, ports |-> ports, called |-> TRUE]
PortsErr == [err |-> TRUE, ports |-> <<>>, called |-> TRUE]

\* strings.Split(w, sep): the pieces of w between the separators, at least one
RECURSIVE Split(_, _)
Split(w, sep) ==
  IF \E i \in DOMAIN w : w[i] = sep
    THEN LET i == CHOOSE k \in DOMAIN w :
                    w[k] = sep /\ \A j \in 1..(k - 1) : w[j] # sep
         IN  <<SubSeq(w, 1, i - 1)>> \o Split(SubSeq(w, i + 1, Len(w)), sep)
    ELSE <<w>>

\* strings.TrimSpace(w): w without leading and trailing white space
RECURSIVE TrimLeft(_)
TrimLeft(w) == IF w # <<>> /\ w[1] = " " THEN TrimLeft(Tail(w)) ELSE w
RECURSIVE TrimRight(_)
TrimRight(w) ==
  IF w # <<>> /\ w[Len(w)] = " " THEN TrimRight(SubSeq(w, 1, Len(w) - 1)) ELSE w
TrimSpace(w) == TrimRight(TrimLeft(w))

\* strings.Contains(w, c)
Contains(w, c) == \E i \in DOMAIN w : w[i] = c

\* strconv.Atoi(w): an optional sign and one or more decimal digits
RECURSIVE DigitsValue(_)
DigitsValue(w) ==
  IF w = <<>> THEN 0
  ELSE 10 * DigitsValue(SubSeq(w, 1, Len(w) - 1)) + DigitValue(w[Len(w)])
Atoi(w) ==
  LET signed == w # <<>> /\ w[1] \in {"+", "-"}
      body == IF signed THEN Tail(w) ELSE w
  IN  IF body = <<>> \/ \E i \in DOMAIN body : body[i] \notin {Digits[k] : k \in DOMAIN Digits}
        THEN [err |-> TRUE, n |-> 0]
        ELSE [err |-> FALSE,
              n |-> IF signed /\ w[1] = "-" THEN 0 - DigitsValue(body)
                                            ELSE DigitsValue(body)]

\* a range loop that stops before the end port
PortRange_ExcludesEnd(start, end) == [i \in 1..(end - start) |-> start + i - 1]

\* for port := start; port <= end; port++ { ports = append(ports, port) }
PortRange(start, end) == [i \in 1..(end - start + 1) |-> start + i - 1]

\* parsePorts, one trimmed, non-empty part: a range when it contains "-",
\* else a single port
ParsePart(part) ==
  IF Contains(part, "-")
    THEN LET rangeParts == Split(part, "-") IN
         IF Len(rangeParts) # 2 THEN PortsErr
         ELSE LET start == Atoi(TrimSpace(rangeParts[1]))
                  end == Atoi(TrimSpace(rangeParts[2]))
              IN  IF start.err \/ end.err THEN PortsErr
                  ELSE IF start.n > end.n THEN PortsErr
                  ELSE PortsOk(PortRange(start.n, end.n))
    ELSE LET port == Atoi(part) IN
         IF port.err THEN PortsErr ELSE PortsOk(<<port.n>>)

\* parsePorts, the loop over the parts: empty parts are skipped, the first
\* error returns
RECURSIVE ParseParts(_, _)
ParseParts(parts, ports) ==
  IF parts = <<>> THEN PortsOk(ports)
  ELSE LET part == TrimSpace(Head(parts)) IN
       IF part = <<>> THEN ParseParts(Tail(parts), ports)
       ELSE LET r == ParsePart(part) IN
            IF r.err THEN PortsErr
            ELSE ParseParts(Tail(parts), ports \o r.ports)

parsePorts(str) == ParseParts(Split(str, ","), <<>>)

\* parseAllPorts: the ports of every string of the array, in order; the first
\* error returns
RECURSIVE parseAllPorts(_)
parseAllPorts(portsArray) ==
  IF portsArray = <<>> THEN PortsOk(<<>>)
  ELSE LET r == parsePorts(Head(portsArray))
           rest == parseAllPorts(Tail(portsArray))
       IN  IF r.err \/ rest.err THEN PortsErr
           ELSE PortsOk(r.ports \o rest.ports)

\* -- the port lists parsePorts is given --

Ports == FirstPort..(FirstPort + NumPorts - 1)

\* the items of a port list: a port, a range a-b (a above b included), an
\* empty item, a word, a range with a word for a bound, an item with two
\* dashes; with or without white space around the item and its dash
PortItems ==
  {[k |-> "port", a |-> n, b |-> n, pad |-> sp] : n \in Ports, sp \in BOOLEAN}
    \cup [k : {"range"}, a : Ports, b : Ports, pad : BOOLEAN]
    \cup [k : {"empty", "word", "badstart", "badend", "dashes"},
          a : {FirstPort}, b : {FirstPort}, pad : BOOLEAN]

ItemLists == UNION {[1..n -> PortItems] : n \in 0..MaxItems}

\* the decimal digits of n
RECURSIVE Decimal(_)
Decimal(n) ==
  IF n < 10 THEN <<Digits[n + 1]>>
  ELSE Append(Decimal(n \div 10), Digits[(n % 10) + 1])

\* an item as it is written in a port list
ItemStr(it) ==
  LET sp == IF it.pad THEN <<" ">> ELSE <<>>
      dash == sp \o <<"-">> \o sp
      w == CASE it.k = "port" -> Decimal(it.a)
             [] it.k = "range" -> Decimal(it.a) \o dash \o Decimal(it.b)
             [] it.k = "empty" -> <<>>
             [] it.k = "word" -> <<"x">>
             [] it.k = "badstart" -> <<"x">> \o dash \o Decimal(it.b)
             [] it.k = "badend" -> Decimal(it.a) \o dash \o <<"x">>
             [] it.k = "dashes" -> Decimal(it.a) \o dash \o Decimal(it.b)
                                     \o dash \o Decimal(it.b)
  IN  sp \o w \o sp

\* the items of a list, separated by commas
RECURSIVE ListStr(_)
ListStr(items) ==
  IF items = <<>> THEN <<>>
  ELSE IF Len(items) = 1 THEN ItemStr(items[1])
  ELSE ItemStr(Head(items)) \o <<",">> \o ListStr(Tail(items))

\* main has not loaded a configuration: parsePorts is about to be called on a
\* port list
InitPorts ==
  /\ kind = "main"
  /\ pc = [t \in Tasks |-> "none"]
  /\ InitShared
  /\ NoUdp
  /\ NoTcp
  /\ copyPc = [d \in Directions |-> "idle"]
  /\ NoBytes
  /\ NoDatagrams
  /\ mu = [s \in SessionIds |-> NoHolder]
  /\ portItems \in ItemLists
  /\ portsStr = ListStr(portItems)
  /\ parsed = NotCalled
  /\ rules = <<>>
  /\ ruleIdx = 0
  /\ relays = {}

\* ports, err := parsePorts(portsStr)
CallParsePorts ==
  /\ ~parsed.called
  /\ parsed' = parsePorts(portsStr)
  /\ UNCHANGED <<sharedVars, udpVars, tcpVars, copyVars, dgramVars, lockVars,
                 portItems, portsStr, rules, ruleIdx, relays>>

NextPorts == CallParsePorts

SpecPorts == InitPorts /\ [][NextPorts]_vars

\* ---- main: the forwarding rules ----

\* strings.ToLower, on the letters of the protocol names
Lower(c) ==
  CASE c = "T" -> "t" [] c = "C" -> "c" [] c = "P" -> "p"
    [] c = "U" -> "u" [] c = "D" -> "d" [] OTHER -> c
ToLower(w) == [i \in DOMAIN w |-> Lower(w[i])]

tcp == <<"t", "c", "p">>
udp == <<"u", "d", "p">>

\* the protocol lists of a rule: none, both protocols (in any case, with
\* white space), an unsupported one
ProtocolLists ==
  {<<>>, <<tcp, <<" ", "U", "D", "P", " ">>>>, <<<<"s", "c", "t", "p">>>>}

\* listen_ports / target_ports: one port, a word, or a range of two and one
\* more port
PortArrays ==
  {<<Decimal(FirstPort)>>,
   <<<<"x">>>>,
   <<Decimal(FirstPort) \o <<"-">> \o Decimal(FirstPort + 1),
     Decimal(FirstPort + NumPorts - 1)>>}

\* cfg.Forwards
Forwards ==
  [Enabled : BOOLEAN, ListenPorts : PortArrays, TargetPorts : PortArrays,
   Protocol : ProtocolLists]
Configs == UNION {[1..n -> Forwards] : n \in 0..MaxRules}

\* main has loaded the configuration and is about to process the rules
InitMain ==
  /\ kind = "main"
  /\ pc = [t \in Tasks |-> "none"]
  /\ InitShared
  /\ NoUdp
  /\ NoTcp
  /\ copyPc = [d \in Directions |-> "idle"]
  /\ NoBytes
  /\ NoDatagrams
  /\ mu = [s \in SessionIds |-> NoHolder]
  /\ portItems = <<>>
  /\ portsStr = <<>>
  /\ parsed = NotCalled
  /\ rules \in Configs
  /\ ruleIdx = 0
  /\ relays = {}

\* the proxies the protocol loop starts for rule i: for every supported
\* protocol of the list one proxy for each of the first n port pairs
Proxies(i, protocols, listenPorts, targetPorts, n) ==
  {[rule |-> i, protocol |-> ToLower(TrimSpace(protocols[p])), pair |-> j,
    listen |-> listenPorts[j], target |-> targetPorts[j]] :
     p \in {q \in DOMAIN protocols :
              ToLower(TrimSpace(protocols[q])) \in {tcp, udp}},
     j \in 1..n}

\* a rule loop that pairs the ports up to the shorter list
ForwardRule_Truncates ==
  /\ ruleIdx < Len(rules)
  /\ ruleIdx' = ruleIdx + 1
  /\ LET i == ruleIdx + 1
         forwardCfg == rules[i]
         listenPorts == parseAllPorts(forwardCfg.ListenPorts)
         targetPorts == parseAllPorts(forwardCfg.TargetPorts)
         Protocol == IF Len(forwardCfg.Protocol) = 0 THEN <<tcp>>
                     ELSE forwardCfg.Protocol
     IN  relays' =
           IF ~forwardCfg.Enabled THEN relays
           ELSE IF listenPorts.err THEN relays
           ELSE IF targetPorts.err THEN relays
           ELSE relays \cup Proxies(i, Protocol, listenPorts.ports,
                                    targetPorts.ports,
                                    IF Len(listenPorts.ports)
                                         < Len(targetPorts.ports)
                                      THEN Len(listenPorts.ports)
                                      ELSE Len(targetPorts.ports))
  /\ UNCHANGED <<sharedVars, udpVars, tcpVars, copyVars, dgramVars, lockVars,
                 portItems, portsStr, parsed, rules>>

\* one iteration of for i, forwardCfg := range cfg.Forwards
ForwardRule ==
  /\ ruleIdx < Len(rules)
  /\ ruleIdx' = ruleIdx + 1
  /\ LET i == ruleIdx + 1
         forwardCfg == rules[i]
         listenPorts == parseAllPorts(forwardCfg.ListenPorts)
         targetPorts == parseAllPorts(forwardCfg.TargetPorts)
         Protocol == IF Len(forwardCfg.Protocol) = 0 THEN <<tcp>>
                     ELSE forwardCfg.Protocol
     IN  relays' =
           IF ~forwardCfg.Enabled THEN relays
           ELSE IF listenPorts.err THEN relays
           ELSE IF targetPorts.err THEN relays
           ELSE IF Len(listenPorts.ports) # Len(targetPorts.ports) THEN relays
           ELSE relays \cup Proxies(i, Protocol, listenPorts.ports,
                                    targetPorts.ports, Len(listenPorts.ports))
  /\ UNCHANGED <<sharedVars, udpVars, tcpVars, copyVars, dgramVars, lockVars,
                 portItems, portsStr, parsed, rules>>

NextMain == ForwardRule

SpecMain == InitMain /\ [][NextMain]_vars

\* ---- scheduling ----
\* The Go scheduler runs every runnable goroutine; a blocked call returns once
\* its socket is closed; the ticker keeps firing.  Nothing is assumed of the
\* network: datagrams, bytes and I/O errors on open sockets may never come.

FairUDP ==
  /\ WF_vars(UdpListen \/ UdpReadErr \/ UdpLoad \/ NewSessionErr \/ UdpStore
               \/ Send \/ SendErr)
  /\ WF_vars(UdpRead /\ conn # "open")
  /\ WF_vars(UdpProxyCancel)
  /\ \A s \in SessionIds :
       /\ WF_vars(TargetLoop(s) /\ (ctxDone \/ done[s]))
       /\ WF_vars(TargetWrite(s))
       /\ WF_vars(Close(TargetTask(s)))
       /\ WF_vars(checkTimeout(s))

FairSpecUDP == SpecUDP /\ FairUDP

\* a copy blocked on a socket that is closed
CopyUnblocked(t) ==
  /\ Copy(t)
  /\ \/ pc[t] = "read" /\ Src(t) = "closed"
     \/ pc[t] = "write" /\ Dst(t) = "closed"

FairTCP ==
  /\ WF_vars(TcpListen \/ TcpAcceptErr)
  /\ WF_vars(TcpAccept /\ listener # "open")
  /\ WF_vars(TcpProxyCancel)
  /\ \A c \in ConnIds : WF_vars(handleConnection(c))
  /\ \A t \in CopyTasks : WF_vars(CopyUnblocked(t)) /\ WF_vars(CopyDefer(t))

FairSpecTCP == SpecTCP /\ FairTCP

\* ---- the claims ----

Created(s) == s <= nsess
Open(s) == Created(s) /\ ~done[s]
OpenSessions(p) == {s \in SessionIds : Open(s) /\ sessionKey[s] = p}

\* C1: whatever tasks call Close on a session and however they interleave,
\* done is closed once, the outbound socket is closed once, the table entry is
\* deleted once, and no call panics.
C1_CloseOnceNoPanic ==
  /\ ~panicked
  /\ \A s \in SessionIds :
       /\ closeEffects[s].done <= 1
       /\ closeEffects[s].conn <= 1
       /\ closeEffects[s].delete <= 1

\* C2: every peer has at most one open session, and the session the table
\* holds for a peer is a session of that peer; datagrams of a peer whose
\* session is open never make a second one.
C2_OneOpenSessionPerPeer ==
  \A p \in Peers :
    /\ Cardinality(OpenSessions(p)) <= 1
    /\ sessions[p] # 0 => sessionKey[sessions[p]] = p

\* C2, reached: a peer's first session was closed and removed, and a later
\* datagram of the same peer made the second, which is open and in the table
C2_Witness ==
  \E p \in Peers : \E s1, s2 \in SessionIds :
    /\ s1 # s2
    /\ Created(s1) /\ Created(s2)
    /\ sessionKey[s1] = p /\ sessionKey[s2] = p
    /\ done[s1] /\ ~done[s2]
    /\ sessions[p] = s2

\* the table holds session s under its key
InTable(s) == Created(s) /\ sessions[sessionKey[s]] = s

\* C3: a session left idle for longer than the timeout is, with the ticker
\* firing, eventually closed and gone from the table (unless a datagram
\* refreshes it first).
C3_IdleSessionEvicted ==
  \A s \in SessionIds :
    (Created(s) /\ Inactive(s)) ~> (~Inactive(s) \/ (done[s] /\ ~InTable(s)))

\* every goroutine of the instance has returned or was never started
AllExited == \A t \in Tasks : pc[t] \in {"none", "exited", "returned"}

\* C6: once the shutdown signal has fired, the listener loop, every handler
\* and copy goroutine, and every session's reverse loop and watchdog exit.
C6_ShutdownTerminates == ctxDone ~> AllExited

\* C8: when the datagram relay's Start has returned nil, the listening socket
\* is closed, every session is closed and the table is empty.
C8_StartClosesSessions ==
  (kind = "udp" /\ result = "nil") =>
    /\ conn = "closed"
    /\ \A s \in SessionIds : Created(s) => done[s]
    /\ \A p \in Peers : sessions[p] = 0

\* C9: Start returns an error only if the bind failed; with the socket bound
\* it returns only nil and only after the shutdown signal; a read or accept
\* error before the signal takes the loop back to the next read or accept.
C9_StartResult ==
  /\ [](result = "err" => (conn = "none" /\ listener = "none"))
  /\ [](result = "nil" => ctxDone)
  /\ [][(pc[UdpStart] = "readerr" /\ ~ctxDone /\ pc'[UdpStart] # "readerr")
          => (pc'[UdpStart] = "read" /\ result' = "none" /\ conn' = "open")]_vars
  /\ [][(pc[TcpStart] = "accepterr" /\ ~ctxDone /\ pc'[TcpStart] # "accepterr")
          => (pc'[TcpStart] = "accept" /\ result' = "none"
              /\ listener' = "open")]_vars

\* C9, reached: the datagram relay served a peer, was told to stop and
\* returned nil
C9_Witness ==
  /\ kind = "udp"
  /\ result = "nil"
  /\ nsess > 0
  /\ pc[UdpStart] = "returned"

\* ---- the connection relay ----

DialOk(c) == tcpTargetConn[c] # "none"
DialFailed(c) == pc[ConnTask(c)] = "exited" /\ ~DialOk(c)
Returned(c) == pc[ConnTask(c)] = "exited"
CopiesOf(c) == {ClientToTarget(c), TargetToClient(c)}
Other(t) == IF t[1] = "clientToTarget" THEN TargetToClient(t[2])
                                       ELSE ClientToTarget(t[2])
\* io.Copy of task t has returned
Finished(t) == pc[t] \in {"cancel", "Done", "exited"}

\* C4: a connection whose dial succeeded gets two copy goroutines and no
\* more; handleConnection returns only when both have exited, and with both
\* sockets closed.
C4_TwoCopiesThenTeardown ==
  \A c \in ConnIds :
    /\ started[c] <= 2
    /\ (DialOk(c) /\ pc[ConnTask(c)] \notin {"go1", "go2"}) => started[c] = 2
    /\ (DialOk(c) /\ Returned(c)) =>
         /\ \A t \in CopiesOf(c) : pc[t] = "exited"
         /\ clientConn[c] = "closed"
         /\ tcpTargetConn[c] = "closed"

\* C4, reached: a connection was relayed and torn down
C4_Witness ==
  \E c \in ConnIds : DialOk(c) /\ Returned(c) /\ started[c] = 2

\* C5: a copy goroutine that finished has cancelled connCtx before it is
\* gone; and once one direction has finished, both sockets get closed and the
\* other direction exits.
C5_FirstFinishTearsDown ==
  /\ [](\A t \in CopyTasks : pc[t] \in {"Done", "exited"} => cancelled[t[2]])
  /\ \A t \in CopyTasks :
       Finished(t) ~> (/\ clientConn[t[2]] = "closed"
                       /\ tcpTargetConn[t[2]] = "closed"
                       /\ pc[Other(t)] = "exited")

\* C5, reached: with no shutdown signal, one direction ended and the whole
\* connection was torn down
C5_Witness ==
  \E c \in ConnIds :
    /\ ~ctxDone
    /\ \A t \in CopiesOf(c) : pc[t] = "exited"
    /\ clientConn[c] = "closed" /\ tcpTargetConn[c] = "closed"

\* C10: after a failed dial the accepted connection is closed and has no copy
\* goroutine, and the listener is still open and Start still running as long
\* as no shutdown signal came.
C10_DialFailureContained ==
  \A c \in ConnIds :
    DialFailed(c) =>
      /\ clientConn[c] = "closed"
      /\ started[c] = 0
      /\ \A t \in CopiesOf(c) : pc[t] = "none"
      /\ ~ctxDone => (listener = "open" /\ result = "none")

\* C10, reached: the first connection's dial failed and the second connection
\* was accepted and dialled
C10_Witness ==
  /\ MaxConns >= 2
  /\ DialFailed(1)
  /\ DialOk(2)
  /\ ~ctxDone

\* C7: when the connection relay's Start has returned, every handler and
\* both of its copy goroutines have exited.
C7_StartWaitsForHandlers ==
  (kind = "tcp" /\ result = "nil") =>
    \A c \in ConnIds :
      /\ pc[ConnTask(c)] \in {"none", "exited"}
      /\ \A t \in CopiesOf(c) : pc[t] \in {"none", "exited"}

\* ---- the bytes of a connection ----

IsPrefix(a, b) == Len(a) <= Len(b) /\ SubSeq(b, 1, Len(a)) = a

\* C11: in each direction of a connection, at every moment, the bytes written
\* to the destination socket are a prefix of the bytes read from the source
\* socket: the same bytes in the same order.
C11_WrittenIsPrefixOfRead ==
  \A d \in Directions : IsPrefix(dstWritten[d], srcRead[d])

\* C11, reached: both directions have relayed bytes, one of them MaxBytes
\* bytes that are not all the same
C11_Witness ==
  /\ \A d \in Directions : Len(dstWritten[d]) > 0
  /\ \E d \in Directions :
       /\ Len(dstWritten[d]) = MaxBytes
       /\ \E i, j \in 1..MaxBytes : dstWritten[d][i] # dstWritten[d][j]

\* ---- the datagrams of a session ----

\* the forwarded datagrams of a leg carry what they were received with
SamePayload(out, in) ==
  \A i \in DOMAIN out :
    /\ out[i][1] \in DOMAIN in
    /\ out[i][2] = in[out[i][1]]

\* no received datagram of a leg was forwarded twice
AtMostOnce(out) ==
  \A i, j \in DOMAIN out : out[i][1] = out[j][1] => i = j

\* C12: a forwarded datagram carries exactly the payload of the one datagram
\* it was received as, whatever its length, to the target and back to the
\* peer; no received datagram is forwarded more than once.
C12_PayloadVerbatim ==
  \A s \in SessionIds :
    /\ SamePayload(toTarget[s], fromPeer[s])
    /\ SamePayload(toPeer[s], fromTarget[s])
    /\ AtMostOnce(toTarget[s])
    /\ AtMostOnce(toPeer[s])

\* the forwarded datagrams of a leg are in the order they were received in
InReceiptOrder(out) ==
  \A i, j \in DOMAIN out : i < j => out[i][1] < out[j][1]

\* C19: within one session the datagrams written to the target are, in the
\* same order, a subsequence of the datagrams received from the peer, and the
\* datagrams written back to the peer are, in the same order, a subsequence of
\* the datagrams read from the outbound socket.
C19_ForwardedInReceiptOrder ==
  \A s \in SessionIds :
    /\ InReceiptOrder(toTarget[s])
    /\ \A i \in DOMAIN toTarget[s] : toTarget[s][i][1] \in DOMAIN fromPeer[s]
    /\ InReceiptOrder(toPeer[s])
    /\ \A i \in DOMAIN toPeer[s] : toPeer[s][i][1] \in DOMAIN fromTarget[s]

\* C19, reached: a session forwarded two datagrams of its peer to the target
C19_Witness ==
  \E s \in SessionIds : Len(toTarget[s]) >= 2

\* ---- the life of a session ----

\* C13: when Send fails to write a peer's datagram to the target, the session
\* stays open (done not closed, outbound socket not closed) and its table
\* entry stays; the only change to any session is the refreshed
\* lastActiveTime of this one.
C13_SendFailureKeepsSession ==
  [][(pc[UdpStart] \in {"send", "Send.err"} /\ pc'[UdpStart] \in {"Send.err", "read"}
        /\ pc'[UdpStart] # pc[UdpStart])
       => (/\ UNCHANGED <<done, targetConn, sessions, sessionKey, conn>>
           /\ lastActiveTime' = IF pc[UdpStart] = "send"
                                  THEN [lastActiveTime EXCEPT ![session] = now]
                                  ELSE lastActiveTime)]_vars

\* C13, reached: the write for an open, stored session failed and the session
\* is still open and stored
C13_Witness ==
  /\ pc[UdpStart] = "Send.err"
  /\ ~done[session]
  /\ targetConn[session] = "open"
  /\ sessions[clientAddr] = session
  /\ lastActiveTime[session] = now
  /\ now > 0

\* task t calls Close on a session that is not closed yet
EntersClose(t) == pc[t] # "Close.done" /\ pc'[t] = "Close.done"

\* C14: a session is closed only by its watchdog on the shutdown signal or
\* with the idle time above the timeout, by its reverse loop on a read error
\* that is not a deadline expiry, or by the cancellation goroutine on the
\* shutdown signal; a deadline expiry or a failed write closes no session.
C14_OnlyThreeTriggers ==
  [][/\ \A s \in SessionIds :
          /\ EntersClose(TimeoutTask(s)) => (ctxDone \/ Inactive(s))
          /\ EntersClose(TargetTask(s)) => pc[TargetTask(s)] = "select"
          /\ (done'[s] /\ ~done[s]) =>
               \E t \in {TimeoutTask(s), TargetTask(s), UdpCancel} :
                 pc[t] = "Close.done" /\ pc'[t] = "Close.delete"
     /\ EntersClose(UdpCancel) => ctxDone]_vars

\* a Close of session s has run to its end
CloseCompleted(s) == closeEffects[s].delete >= 1

\* C15: once a Close of a session has completed, the table holds no entry
\* for that session, also when the Close ran before the receive loop stored
\* the session it had just created.
C15_ClosedNotInTable ==
  \A s \in SessionIds : CloseCompleted(s) => ~InTable(s)

\* C16: when the watchdog closes a session for idleness (no shutdown signal),
\* the session is idle at that moment: no datagram has refreshed it within the
\* timeout, also when a Refresh races with the watchdog's check.
C16_ClosedOnlyWhileIdle ==
  [][\A s \in SessionIds :
       (/\ pc[TimeoutTask(s)] = "Close.done"
        /\ pc'[TimeoutTask(s)] = "Close.delete"
        /\ ~ctxDone) => Inactive(s)]_vars

\* ---- lastActiveTime ----

\* task t is reading or writing lastActiveTime of its session
Accessing(t) == pc[t] \in {"Refresh.set", "Send.set", "check.read"}

\* C17: a task reads or writes a session's lastActiveTime only while it holds
\* the session's mutex, and while the session is open lastActiveTime never
\* decreases, whatever Refresh and Send calls of the receive loop and the
\* reverse loop interleave.
C17_LastActiveMonotonicUnderLock ==
  /\ [](\A t \in LockTasks : Accessing(t) => mu[Receiver(t)] = t)
  /\ [][\A s \in SessionIds :
          ~done[s] => lastActiveTime'[s] >= lastActiveTime[s]]_vars

\* C17, reached: the receive loop is setting a session's lastActiveTime to a
\* later time while the session's reverse loop waits for the mutex
C17_Witness ==
  \E s \in SessionIds :
    /\ pc[UdpStart] = "Send.Unlock"
    /\ session = s
    /\ mu[s] = UdpStart
    /\ pc[TargetTask(s)] = "Refresh.Lock"
    /\ lastActiveTime[s] = MaxTime
    /\ ~done[s]

\* ---- a session that cannot be constructed ----

\* C18: a datagram of a peer without table entry always leads to a NewSession
\* call; when the call fails the datagram is dropped: the table, the sessions
\* and every other task are as before (no goroutine was started), the
\* listening socket is untouched and the receive loop goes on to the next read.
C18_ConstructionFailureDrops ==
  [][/\ (pc[UdpStart] = "load" /\ pc'[UdpStart] # "load" /\ Load(clientAddr) = 0)
          => pc'[UdpStart] \in {"store", "NewSession.err"}
     /\ (pc'[UdpStart] # pc[UdpStart]
           /\ "NewSession.err" \in {pc[UdpStart], pc'[UdpStart]})
          => /\ UNCHANGED <<sessions, nsess, sessionKey, done, targetConn,
                           lastActiveTime, conn, result>>
             /\ \A t \in Tasks \ {UdpStart} : pc'[t] = pc[t]
     /\ (pc[UdpStart] = "NewSession.err" /\ pc'[UdpStart] # "NewSession.err")
          => pc'[UdpStart] = "read"]_vars

\* C18, reached: with one peer's session in the table, the construction for
\* another peer failed
C18_Witness ==
  /\ pc[UdpStart] = "NewSession.err"
  /\ sessions[clientAddr] = 0
  /\ \E p \in Peers : sessions[p] # 0 /\ ~done[sessions[p]]
  /\ nsess < MaxSessions

\* ---- containment ----

\* the tasks that call Session.Close
Closers == {UdpCancel} \cup {TargetTask(s) : s \in SessionIds}
             \cup {TimeoutTask(s) : s \in SessionIds}

\* everything of the sessions other than s is left as it is
OtherSessionsUnchanged(s) ==
  /\ \A s2 \in SessionIds \ {s} :
       /\ done'[s2] = done[s2]
       /\ targetConn'[s2] = targetConn[s2]
       /\ lastActiveTime'[s2] = lastActiveTime[s2]
  /\ \A p \in Peers \ {sessionKey[s]} : sessions'[p] = sessions[p]

\* everything of the connections other than c is left as it is
OtherConnsUnchanged(c) ==
  \A c2 \in ConnIds \ {c} :
    /\ clientConn'[c2] = clientConn[c2]
    /\ tcpTargetConn'[c2] = tcpTargetConn[c2]
    /\ cancelled'[c2] = cancelled[c2]
    /\ wg'[c2] = wg[c2]
    /\ \A t \in CopiesOf(c2) \cup {ConnTask(c2)} : pc'[t] = pc[t]

\* C20: a step of Close on one session leaves the table entry, done, the
\* outbound socket and lastActiveTime of every other peer's session and the
\* listening socket as they are, and the process running; a step of one
\* connection's handler or copy goroutines, failures included, leaves every
\* other connection and the listener as they are.
C20_ErrorsContained ==
  [][/\ \A t \in Closers :
          (pc[t] \in {"Close.done", "Close.delete"} /\ pc'[t] # pc[t])
            => (OtherSessionsUnchanged(CloseArg(t)) /\ conn' = conn)
     /\ (\E t \in Closers : pc[t] = "Close.done") => ~panicked'
     /\ \A c \in ConnIds : \A t \in CopiesOf(c) \cup {ConnTask(c)} :
          pc'[t] # pc[t]
            => (OtherConnsUnchanged(c) /\ listener' = listener
                /\ result' = result)]_vars

\* ---- port lists ----

\* an item that is not a port and not a range a-b with a <= b
BadItem(it) ==
  \/ it.k \in {"word", "badstart", "badend", "dashes"}
  \/ it.k = "range" /\ it.a > it.b

\* the ports an item stands for: the port, the ports a, a+1, ..., b of a
\* range, none for an empty item
ItemPorts(it) ==
  CASE it.k = "port" -> <<it.a>>
    [] it.k = "range" -> [i \in 1..(it.b - it.a + 1) |-> it.a + i - 1]
    [] OTHER -> <<>>

RECURSIVE ListPorts(_)
ListPorts(items) ==
  IF items = <<>> THEN <<>>
  ELSE ItemPorts(Head(items)) \o ListPorts(Tail(items))

\* C24: parsePorts returns the ports of the items in item order, a range
\* a-b with a <= b giving a, a+1, ..., b; empty items are skipped; an item with
\* a > b, with a bound that is not a number, or with more than one dash makes
\* the call return an error and no ports.
C24_ParsePortsExpands ==
  parsed.called =>
    IF \E i \in DOMAIN portItems : BadItem(portItems[i])
      THEN parsed.err /\ parsed.ports = <<>>
      ELSE ~parsed.err /\ parsed.ports = ListPorts(portItems)

\* C24, reached: a range over all the ports followed by a single port was
\* expanded, as "8080-8082,9000" is
C24_Witness ==
  /\ parsed.called
  /\ ~parsed.err
  /\ Len(portItems) = 2
  /\ portItems[1].k = "range"
  /\ portItems[2].k = "port"
  /\ Len(parsed.ports) = NumPorts + 1
  /\ parsed.ports[NumPorts] = FirstPort + NumPorts - 1

\* ---- forwarding rules ----

\* rule i is enabled, both its port lists parse, and they expand to different
\* numbers of ports
Mismatched(i) ==
  /\ rules[i].Enabled
  /\ ~parseAllPorts(rules[i].ListenPorts).err
  /\ ~parseAllPorts(rules[i].TargetPorts).err
  /\ Len(parseAllPorts(rules[i].ListenPorts).ports)
       # Len(parseAllPorts(rules[i].TargetPorts).ports)

\* rule i is enabled, its port lists expand to the same, positive number of
\* ports, and it names a supported protocol (or none, which means tcp)
Valid(i) ==
  /\ rules[i].Enabled
  /\ ~parseAllPorts(rules[i].ListenPorts).err
  /\ ~parseAllPorts(rules[i].TargetPorts).err
  /\ Len(parseAllPorts(rules[i].ListenPorts).ports)
       = Len(parseAllPorts(rules[i].TargetPorts).ports)
  /\ Len(parseAllPorts(rules[i].ListenPorts).ports) > 0
  /\ \/ rules[i].Protocol = <<>>
     \/ \E p \in DOMAIN rules[i].Protocol :
          ToLower(TrimSpace(rules[i].Protocol[p])) \in {tcp, udp}

\* C21: an enabled rule whose expanded listen and target port lists differ in
\* length never gets a relay of any protocol, not even for the ports the two
\* lists have in common, and the rules after it are still processed: once the
\* loop has gone past a valid rule, that rule has its relays, whatever rules
\* came before it.
C21_MismatchRejectedWhole ==
  \A i \in DOMAIN rules :
    /\ Mismatched(i) => ~\E r \in relays : r.rule = i
    /\ i <= ruleIdx /\ Valid(i) => \E r \in relays : r.rule = i

\* C21, reached: the loop has rejected a mismatched rule and then started the
\* relays of the valid rule after it
C21_Witness ==
  /\ Len(rules) = 2
  /\ ruleIdx = 2
  /\ Mismatched(1)
  /\ Valid(2)
  /\ \E r \in relays : r.rule = 2
  /\ ~\E r \in relays : r.rule = 1

\* ---- the mutex and the sockets ----

\* task t is in a read or a write on a datagram socket: the receive loop in
\* conn.ReadFromUDP or in Send's targetConn.WriteToUDP, a reverse loop in
\* targetConn.ReadFromUDP or in sourceConn.WriteToUDP
InSocketOp(t) ==
  \/ t = UdpStart /\ pc[t] \in {"read", "Send.write"}
  \/ t \in {TargetTask(s) : s \in SessionIds} /\ pc[t] \in {"select", "write"}

\* task t waits in s.mu.Lock() of Refresh, Send or the watchdog's idle check
InLock(t) == pc[t] \in {"Refresh.Lock", "Send.Lock", "check.Lock"}

\* C22: a task that is in a read or a write on the inbound or an outbound
\* datagram socket holds no session's mutex, so the mutex a Refresh or the
\* watchdog's idle check waits for is never held by a task in socket I/O.
C22_NoLockAcrossIO ==
  /\ \A t \in LockTasks : InSocketOp(t) => \A s \in SessionIds : mu[s] # t
  /\ \A t \in LockTasks :
       (InLock(t) /\ mu[Receiver(t)] # NoHolder) => ~InSocketOp(mu[Receiver(t)])

\* C22, reached: the receive loop is in Send's write to the target of a
\* session while the session's watchdog holds the mutex for its idle check
\* and the session's reverse loop has been through a Refresh and is in its
\* write to the peer
C22_Witness ==
  \E s \in SessionIds :
    /\ pc[UdpStart] = "Send.write"
    /\ session = s
    /\ pc[TargetTask(s)] = "write"
    /\ pc[TimeoutTask(s)] = "check.read"
    /\ mu[s] = TimeoutTask(s)

\* ---- the senders of the returned datagrams ----

\* a datagram from sender a arrives on the outbound socket of session s
Arrives(s, a) ==
  /\ Len(senders'[s]) = Len(senders[s]) + 1
  /\ senders'[s][Len(senders'[s])] = a

\* C23: every datagram a session writes back to its peer was sent by the
\* session's target; a datagram that arrives on the outbound socket from
\* another sender is not written to the peer and leaves lastActiveTime as
\* it was.
C23_OnlyTargetRelayed ==
  /\ [](\A s \in SessionIds : \A i \in DOMAIN toPeer[s] :
          senders[s][toPeer[s][i][1]] = "target")
  /\ [][\A s \in SessionIds :
          Arrives(s, "other") =>
            /\ toPeer'[s] = toPeer[s]
            /\ lastActiveTime'[s] = lastActiveTime[s]]_vars

====
